---- MODULE Spec2Model ----
(***************************************************************************)
(* A model of the sniffer: the timestamped byte stream of                  *)
(* tcpreader/tcpreader.go (ReaderStream) and the request/response           *)
(* correlator of main.go (handleRequests, handleResponses, the global       *)
(* pendingRequests map and the driver that feeds them), and the decoder of   *)
(* scan/scan.go (redisStreamFactory.New, redisReadArrayOrString, the two    *)
(* handlers and the main that waits for them).                              *)
(*                                                                         *)
(* Bytes are their ASCII codes, strings are sequences of bytes, time is an  *)
(* integer.  The process is one Go process: log.Fatal and an unrecovered    *)
(* panic end every goroutine at once, which the variable exit records.      *)
(***************************************************************************)
EXTENDS Integers, Sequences, FiniteSets, TLC

VARIABLES
    \* ---- tcpreader.ReaderStream ----
    reassembled,        \* the channel r.reassembled: batches sent, not yet received
    closed,             \* close(r.reassembled) has happened
    current,            \* r.current: the segments of the batch being read
    currentByteIndex,   \* r.currentByteIndex (0-based) into current[1].Bytes
    call,               \* the ReadLine / ReadLineN call in progress
    ret,                \* what the last finished call returned
    accepted,           \* history: every byte accepted, with its segment's Seen
    returned,           \* history: every byte read() returned, with its time
    segClock,           \* capture time of the last accepted segment
    \* ---- main.go: the driver, the two handlers of each connection ----
    driver,             \* main(): where it is, the capture clock
    reqStream,          \* per flow key: the request-direction redisStream
    respStream,         \* per flow key: the response-direction redisStream
    reqH,               \* per flow key: the handleRequests goroutine
    respH,              \* per flow key: the handleResponses goroutine
    pendingRequests,    \* the global map flowKey -> []redisRequest
    records,            \* per flow key: the correlation lines printed
    \* ---- scan/scan.go: the dispatcher, a handler and its decoder, main ----
    streams,            \* the redisStreams made by redisStreamFactory.New
    wg,                 \* the counter of the WaitGroup wg
    dec,                \* the handler goroutine: where it is in the decoder
    decoded,            \* what the last finished redisReadArrayOrString returned
    scanMain,           \* main() of scan.go: where it is
    \* ---- the process ----
    exit                \* "running", or how the process ended

rvars == <<reassembled, closed, current, currentByteIndex, call, ret,
           accepted, returned, segClock>>
cvars == <<driver, reqStream, respStream, reqH, respH, pendingRequests, records>>
svars == <<streams, wg, dec, decoded, scanMain>>
vars == <<reassembled, closed, current, currentByteIndex, call, ret,
          accepted, returned, segClock,
          driver, reqStream, respStream, reqH, respH, pendingRequests, records,
          streams, wg, dec, decoded, scanMain,
          exit>>

-----------------------------------------------------------------------------
\* Bytes and times

CR == 13
LF == 10
NUL == 0

\* the bytes that are neither CR nor LF: the letter a
PlainBytes == {97}

\* time.Parse(RFC3339, "2000-01-01T00:00:00Z") and "2002-01-01T00:00:00Z", in
\* Unix seconds; captured segments carry the small times 1, 2, 3, ...
defaultTime == 946684800
errTime == 1009843200

\* capacity of the channel made by NewReaderStream
ChanCap == 1000

\* Bounds of the byte-stream specification
MaxBytes == 4
MaxSegLen == 2
MaxBatchLen == 2
MaxN == 2

ByteSet == {CR, LF} \cup PlainBytes

SeqsUpTo(S, lo, hi) == UNION {[1..k -> S] : k \in lo..hi}

Min(a, b) == IF a < b THEN a ELSE b

\* what the reassembly engine hands to Reassembled: up to k non-empty
\* payloads of up to MaxSegLen bytes each, of at most budget bytes together
RECURSIVE Batches(_, _)
Batches(k, budget) ==
    IF k = 0 \/ budget = 0
      THEN {<<>>}
      ELSE {<<>>} \cup
           UNION {{<<seg>> \o rest : rest \in Batches(k - 1, budget - Len(seg))} :
                      seg \in SeqsUpTo(ByteSet, 1, Min(MaxSegLen, budget))}

\* the bytes of one segment, each tagged with the segment's time
Tagged(seg) == [k \in 1..Len(seg.Bytes) |-> [b |-> seg.Bytes[k], t |-> seg.Seen]]

RECURSIVE TaggedAll(_)
TaggedAll(segs) ==
    IF segs = <<>> THEN <<>> ELSE Tagged(Head(segs)) \o TaggedAll(Tail(segs))

RECURSIVE TaggedChan(_)
TaggedChan(ch) ==
    IF ch = <<>> THEN <<>> ELSE TaggedAll(Head(ch)) \o TaggedChan(Tail(ch))

BytesOf(tagged) == [k \in 1..Len(tagged) |-> tagged[k].b]

-----------------------------------------------------------------------------
\* How the process can end

PanicBlocked == "panic: blocked on sending to channel"
PanicN == "panic: ReadLineN called with n <= 0"
FatalCR == "fatal: expected CR"
FatalLF == "fatal: expected LF"
FatalEmpty == "fatal: empty line"

\* the errors a read returns or dies with
ErrNil == "nil"
EndOfStream == "EOF"
ProtocolViolation == "ProtocolViolation"
Panic == "panic"

NoCall == [op |-> "none", n |-> 0, i |-> 0, stage |-> "none", sb |-> <<>>,
           timestamp |-> defaultTime, start |-> 0]
NoRet == [op |-> "none", n |-> 0, line |-> <<>>, timestamp |-> defaultTime,
          err |-> "none", start |-> 0, end |-> 0, ranOut |-> FALSE]

-----------------------------------------------------------------------------
\* ReaderStream

NewReaderStream ==
    /\ reassembled = <<>>
    /\ closed = FALSE
    /\ current = <<>>
    /\ currentByteIndex = 0
    /\ call = NoCall
    /\ ret = NoRet
    /\ accepted = <<>>
    /\ returned = <<>>
    /\ segClock = 0

\* the clone Reassembled makes of a batch: Bytes copied, Seen kept
Clone(payloads, t0) ==
    [k \in 1..Len(payloads) |-> [Bytes |-> payloads[k], Seen |-> t0 + k]]

\* Reassembled: a non-blocking send; a full channel panics
Reassembled(payloads) ==
    /\ exit = "running"
    /\ ~closed
    /\ IF Len(reassembled) < ChanCap
         THEN /\ reassembled' = Append(reassembled, Clone(payloads, segClock))
              /\ accepted' = accepted \o TaggedAll(Clone(payloads, segClock))
              /\ segClock' = segClock + Len(payloads)
              /\ UNCHANGED exit
         ELSE /\ exit' = PanicBlocked
              /\ UNCHANGED <<reassembled, accepted, segClock>>
    /\ UNCHANGED <<closed, current, currentByteIndex, call, ret, returned>>
    /\ UNCHANGED cvars
    /\ UNCHANGED svars

ReassemblyComplete ==
    /\ exit = "running"
    /\ ~closed
    /\ closed' = TRUE
    /\ UNCHANGED <<reassembled, current, currentByteIndex, call, ret,
                   accepted, returned, segClock, exit>>
    /\ UNCHANGED cvars
    /\ UNCHANGED svars

\* a plausible slip: a closed stream is at its end, whatever the channel holds
RECURSIVE read_closedFirst(_, _, _, _)
read_closedFirst(cur, idx, ch, cl) ==
    IF Len(cur) > 0
      THEN IF idx < Len(cur[1].Bytes)
             THEN [st |-> "byte", b |-> cur[1].Bytes[idx + 1], t |-> cur[1].Seen,
                   current |-> cur, currentByteIndex |-> idx + 1, reassembled |-> ch]
             ELSE read_closedFirst(Tail(cur), 0, ch, cl)
      ELSE IF cl
             THEN [st |-> "eof", b |-> NUL, t |-> errTime,
                   current |-> <<>>, currentByteIndex |-> 0, reassembled |-> ch]
             ELSE IF Len(ch) > 0
                    THEN read_closedFirst(Head(ch), 0, Tail(ch), cl)
                    ELSE [st |-> "block", b |-> NUL, t |-> errTime,
                          current |-> <<>>, currentByteIndex |-> 0, reassembled |-> ch]

\* a plausible slip: the byte index is not reset when a segment is finished
RECURSIVE read_keepsIndex(_, _, _, _)
read_keepsIndex(cur, idx, ch, cl) ==
    IF Len(cur) > 0
      THEN IF idx < Len(cur[1].Bytes)
             THEN [st |-> "byte", b |-> cur[1].Bytes[idx + 1], t |-> cur[1].Seen,
                   current |-> cur, currentByteIndex |-> idx + 1, reassembled |-> ch]
             ELSE read_keepsIndex(Tail(cur), idx, ch, cl)
      ELSE IF Len(ch) > 0
             THEN read_keepsIndex(Head(ch), 0, Tail(ch), cl)
             ELSE IF cl
                    THEN [st |-> "eof", b |-> NUL, t |-> errTime,
                          current |-> <<>>, currentByteIndex |-> 0, reassembled |-> ch]
                    ELSE [st |-> "block", b |-> NUL, t |-> errTime,
                          current |-> <<>>, currentByteIndex |-> 0, reassembled |-> ch]

\* read(): the next byte with its segment's time, io.EOF on a closed and
\* drained channel, or a receive that blocks on an open and empty channel
RECURSIVE read(_, _, _, _)
read(cur, idx, ch, cl) ==
    IF Len(cur) > 0
      THEN IF idx < Len(cur[1].Bytes)
             THEN [st |-> "byte", b |-> cur[1].Bytes[idx + 1], t |-> cur[1].Seen,
                   current |-> cur, currentByteIndex |-> idx + 1, reassembled |-> ch]
             ELSE read(Tail(cur), 0, ch, cl)
      ELSE IF Len(ch) > 0
             THEN read(Head(ch), 0, Tail(ch), cl)
             ELSE IF cl
                    THEN [st |-> "eof", b |-> NUL, t |-> errTime,
                          current |-> <<>>, currentByteIndex |-> 0, reassembled |-> ch]
                    ELSE [st |-> "block", b |-> NUL, t |-> errTime,
                          current |-> <<>>, currentByteIndex |-> 0, reassembled |-> ch]

ReadNow == read(current, currentByteIndex, reassembled, closed)

\* strings.TrimSuffix(s, "\r\n")
TrimSuffixCRLF(s) ==
    IF Len(s) >= 2 /\ s[Len(s) - 1] = CR /\ s[Len(s)] = LF
      THEN SubSeq(s, 1, Len(s) - 2)
      ELSE s

\* the result of a finished call; end is filled in by the step that finishes it
Finished(c, line, ts, err, r) ==
    [op |-> c.op, n |-> c.n, line |-> line, timestamp |-> ts, err |-> err,
     start |-> c.start, end |-> c.start, ranOut |-> r.st = "eof"]

\* one pass of ReadLine's loop around read(): [call, ret, exit]
ReadLineIter(c, r) ==
    IF r.st = "eof"
      THEN [call |-> NoCall, exit |-> "running",
            ret |-> Finished(c, c.sb, r.t, EndOfStream, r)]
      ELSE LET sb == Append(c.sb, r.b) IN
           IF r.b = LF
             THEN LET line == TrimSuffixCRLF(sb) IN
                  IF Len(line) = 0
                    THEN [call |-> NoCall, exit |-> FatalEmpty,
                          ret |-> Finished(c, line, r.t, ProtocolViolation, r)]
                    ELSE [call |-> NoCall, exit |-> "running",
                          ret |-> Finished(c, line, r.t, ErrNil, r)]
             ELSE [call |-> [c EXCEPT !.sb = sb], exit |-> "running", ret |-> NoRet]
\* ReadLineN, the loop over the n payload bytes: one pass
PayloadPass(c, r) ==
    IF r.st = "eof"
      THEN [call |-> NoCall, exit |-> "running",
            ret |-> Finished(c, c.sb, r.t, EndOfStream, r)]
      ELSE [call |-> [c EXCEPT !.sb = Append(c.sb, r.b), !.i = c.i + 1,
                               !.timestamp = r.t,
                               !.stage = IF c.i + 1 < c.n THEN "payload" ELSE "cr"],
            exit |-> "running", ret |-> NoRet]

\* a plausible slip: the read of the CR also overwrites timestamp
CRPass_takesTime(c, r) ==
    IF r.st = "eof"
      THEN [call |-> NoCall, exit |-> "running",
            ret |-> Finished(c, c.sb, c.timestamp, EndOfStream, r)]
      ELSE IF r.b # CR
             THEN [call |-> NoCall, exit |-> FatalCR,
                   ret |-> Finished(c, c.sb, c.timestamp, ProtocolViolation, r)]
             ELSE [call |-> [c EXCEPT !.stage = "lf", !.timestamp = r.t],
                   exit |-> "running", ret |-> NoRet]

\* ReadLineN, the read of the CR (its timestamp is dropped)
CRPass(c, r) ==
    IF r.st = "eof"
      THEN [call |-> NoCall, exit |-> "running",
            ret |-> Finished(c, c.sb, c.timestamp, EndOfStream, r)]
      ELSE IF r.b # CR
             THEN [call |-> NoCall, exit |-> FatalCR,
                   ret |-> Finished(c, c.sb, c.timestamp, ProtocolViolation, r)]
             ELSE [call |-> [c EXCEPT !.stage = "lf"], exit |-> "running",
                   ret |-> NoRet]

\* ReadLineN, the read of the LF: the error of this read is not looked at, so
\* at io.EOF b is the zero byte and is compared with LF like any other
LFPass(c, r) ==
    IF r.b # LF
      THEN [call |-> NoCall, exit |-> FatalLF,
            ret |-> Finished(c, c.sb, c.timestamp, ProtocolViolation, r)]
      ELSE IF Len(c.sb) = 0
             THEN [call |-> NoCall, exit |-> FatalEmpty,
                   ret |-> Finished(c, c.sb, c.timestamp, ProtocolViolation, r)]
             ELSE [call |-> NoCall, exit |-> "running",
                   ret |-> Finished(c, c.sb, c.timestamp, ErrNil, r)]

\* one pass of ReadLineN around read(): [call, ret, exit]
ReadLineNIter(c, r) ==
    CASE c.stage = "payload" -> PayloadPass(c, r)
      [] c.stage = "cr" -> CRPass(c, r)
      [] OTHER -> LFPass(c, r)

\* the reader task enters ReadLine
CallReadLine ==
    /\ exit = "running"
    /\ call.op = "none"
    /\ call' = [NoCall EXCEPT !.op = "ReadLine", !.start = Len(returned)]
    /\ ret' = NoRet
    /\ UNCHANGED <<reassembled, closed, current, currentByteIndex, accepted,
                   returned, segClock, exit>>
    /\ UNCHANGED cvars
    /\ UNCHANGED svars

\* the reader task enters ReadLineN(n); n <= 0 panics at once
CallReadLineN(n) ==
    /\ exit = "running"
    /\ call.op = "none"
    /\ IF n <= 0
         THEN /\ exit' = PanicN
              /\ call' = NoCall
              /\ ret' = [NoRet EXCEPT !.op = "ReadLineN", !.n = n, !.err = Panic,
                                      !.start = Len(returned), !.end = Len(returned)]
         ELSE /\ call' = [NoCall EXCEPT !.op = "ReadLineN", !.n = n, !.stage = "payload",
                                        !.start = Len(returned)]
              /\ ret' = NoRet
              /\ UNCHANGED exit
    /\ UNCHANGED <<reassembled, closed, current, currentByteIndex, accepted,
                   returned, segClock>>
    /\ UNCHANGED cvars
    /\ UNCHANGED svars

\* the state change of one read() and of the loop pass around it
Advance(r, nx) ==
    /\ current' = r.current
    /\ currentByteIndex' = r.currentByteIndex
    /\ reassembled' = r.reassembled
    /\ returned' = IF r.st = "byte" THEN Append(returned, [b |-> r.b, t |-> r.t])
                                    ELSE returned
    /\ call' = nx.call
    /\ ret' = [nx.ret EXCEPT !.end = Len(returned')]
    /\ exit' = nx.exit
    /\ UNCHANGED <<closed, accepted, segClock>>
    /\ UNCHANGED cvars
    /\ UNCHANGED svars

ReadLineStep ==
    /\ exit = "running"
    /\ call.op = "ReadLine"
    /\ ReadNow.st # "block"
    /\ Advance(ReadNow, ReadLineIter(call, ReadNow))

ReadLineNStep ==
    /\ exit = "running"
    /\ call.op = "ReadLineN"
    /\ ReadNow.st # "block"
    /\ Advance(ReadNow, ReadLineNIter(call, ReadNow))

-----------------------------------------------------------------------------
\* main.go: the correlator.  A decoded unit is a sequence of strings, as
\* redisReadArray returns it; each captured segment carries one unit.

\* the number of passes of the retry loop of handleResponses
MaxAttempts == 50

\* Bounds: the TCP segments in the capture, when it holds one connection and
\* when it holds two
MaxPackets == 4
MaxCapture == 2

\* the canonical flow keys of the connections in the capture
Flows == {"c1", "c2"}

RequestUnits == {<<"GET", "foo">>, <<"PING">>}
ResponseUnits ==
    {<<"bar">>, <<"pmessage">>, <<"pmessage", "*", "ev", "foo">>, <<"a", "b">>}

\* a plausible slip: the whole unit is compared with the marker
IsNotification_wholeUnit(lines) == lines = <<"pmessage">>

\* switch lines[0] { case "pmessage":
IsNotification(lines) == lines[1] = "pmessage"

\* a plausible slip: two values pass
MultiValue_offByOne(lines) == Len(lines) > 2

\* if len(lines) > 1
MultiValue(lines) == Len(lines) > 1

FatalMulti == "fatal: expected 1 value response"
FatalUnmatched == "fatal: response with no matching GET"
PanicIndex == "panic: index out of range"
FatalMapRace == "fatal error: concurrent map access"
MainReturned == "exit: main returned"

NoStream == [started |-> FALSE, q |-> <<>>, closed |-> FALSE, lastTimestamp |-> 0,
             seen |-> 0, sent |-> 0]
\* a redisRequest; id, unit and seen are history: the number of the request and
\* the unit it was built from, with the capture time of that unit's segment
NoRequest == [reqType |-> "", key |-> "", requestTime |-> 0, id |-> 0,
              unit |-> <<>>, seen |-> 0]
IdleReq == [pc |-> "none", req |-> NoRequest, reqList |-> <<>>]
IdleResp == [pc |-> "none", lines |-> <<>>, id |-> 0, i |-> 0, reqList |-> <<>>,
             seen |-> 0]

\* var pendingRequests = make(map[string][]redisRequest): no key is present
NoEntry == [ok |-> FALSE, list |-> <<>>]

CorrIdle ==
    /\ driver = [pc |-> "reading", inOrder |-> [f \in Flows |-> TRUE]]
    /\ reqStream = [f \in Flows |-> NoStream]
    /\ respStream = [f \in Flows |-> NoStream]
    /\ reqH = [f \in Flows |-> IdleReq]
    /\ respH = [f \in Flows |-> IdleResp]
    /\ pendingRequests = [f \in Flows |-> NoEntry]
    /\ records = [f \in Flows |-> <<>>]

\* redisStreamFactory.New on the first segment of a direction, then
\* redisStream.Reassembled: lastTimestamp = segment.Seen, the bytes to the reader
Deliver(st, unit, id, now) ==
    [st EXCEPT !.started = TRUE,
               !.q = Append(st.q, [lines |-> unit, id |-> id, seen |-> now]),
               !.lastTimestamp = now,
               !.seen = st.seen + 1,
               !.sent = IF id = 0 THEN st.sent ELSE id]

\* the segments captured so far, of all connections and of one
RECURSIVE SeenIn(_)
SeenIn(F) ==
    IF F = {} THEN 0
    ELSE LET f == CHOOSE g \in F : TRUE IN
         reqStream[f].seen + respStream[f].seen + SeenIn(F \ {f})

\* the capture time of the next segment of connection f: time is counted per
\* connection, one tick a segment
Now(f) == SeenIn({f}) + 1

\* main(): the next captured packet is a request segment of flow f
PacketRequest(f, max) ==
    \E u \in RequestUnits :
        /\ exit = "running"
        /\ driver.pc = "reading"
        /\ SeenIn(Flows) < max
        /\ UNCHANGED driver
        /\ reqStream' = [reqStream EXCEPT
               ![f] = Deliver(reqStream[f], u, reqStream[f].sent + 1, Now(f))]
        /\ reqH' = IF reqStream[f].started THEN reqH
                   ELSE [reqH EXCEPT ![f].pc = "decode"]
        /\ UNCHANGED <<respStream, respH, pendingRequests, records, exit>>
        /\ UNCHANGED rvars
        /\ UNCHANGED svars

\* main(): the next captured packet is a response segment of flow f; a reply
\* is a unit that is no notification, and replies are numbered as they come
PacketResponse(f, max) ==
    \E u \in ResponseUnits :
        LET id == IF IsNotification(u) THEN 0 ELSE respStream[f].sent + 1 IN
        /\ exit = "running"
        /\ driver.pc = "reading"
        /\ SeenIn(Flows) < max
        /\ driver' = [driver EXCEPT
               !.inOrder[f] = driver.inOrder[f] /\ id <= reqStream[f].sent]
        /\ respStream' = [respStream EXCEPT
               ![f] = Deliver(respStream[f], u, id, Now(f))]
        /\ respH' = IF respStream[f].started THEN respH
                    ELSE [respH EXCEPT ![f].pc = "decode"]
        /\ UNCHANGED <<reqStream, reqH, pendingRequests, records, exit>>
        /\ UNCHANGED rvars
        /\ UNCHANGED svars

\* main(): end of the capture, assembler.FlushAll() completes every stream
FlushAll ==
    /\ exit = "running"
    /\ driver.pc = "reading"
    /\ driver' = [driver EXCEPT !.pc = "flushed"]
    /\ reqStream' = [f \in Flows |-> [reqStream[f] EXCEPT !.closed = reqStream[f].started]]
    /\ respStream' = [f \in Flows |-> [respStream[f] EXCEPT !.closed = respStream[f].started]]
    /\ UNCHANGED <<reqH, respH, pendingRequests, records, exit>>
    /\ UNCHANGED rvars
    /\ UNCHANGED svars

\* main(): the summary line is printed and main returns, which ends the process
Summary ==
    /\ exit = "running"
    /\ driver.pc = "flushed"
    /\ driver' = [driver EXCEPT !.pc = "summary"]
    /\ exit' = MainReturned
    /\ UNCHANGED <<reqStream, respStream, reqH, respH, pendingRequests, records>>
    /\ UNCHANGED rvars
    /\ UNCHANGED svars

\* the redisRequest handleRequests builds from a unit
NewRequest(lines, id, now) ==
    [reqType |-> lines[1], key |-> IF Len(lines) > 1 THEN lines[2] ELSE "",
     requestTime |-> now, id |-> id, unit |-> lines, seen |-> 0]

\* handleRequests: redisReadArray returns a unit, the request is built with
\* s.lastTimestamp, and pendingRequests[s.flowKey] is read for the append
RequestDecode(f) ==
    /\ exit = "running"
    /\ reqH[f].pc = "decode"
    /\ reqStream[f].q # <<>>
    /\ LET u == Head(reqStream[f].q) IN
       reqH' = [reqH EXCEPT ![f] =
                   [pc |-> "append_write",
                    req |-> [NewRequest(u.lines, u.id, reqStream[f].lastTimestamp)
                                EXCEPT !.seen = u.seen],
                    reqList |-> pendingRequests[f].list]]
    /\ reqStream' = [reqStream EXCEPT ![f].q = Tail(reqStream[f].q)]
    /\ UNCHANGED <<driver, respStream, respH, pendingRequests, records, exit>>
    /\ UNCHANGED rvars
    /\ UNCHANGED svars

\* a plausible slip: the store waits while the response handler of the flow
\* is in its retry loop, as under a lock held across the loop
RequestAppend_afterRetry(f) ==
    /\ exit = "running"
    /\ reqH[f].pc = "append_write"
    /\ respH[f].pc # "try"
    /\ pendingRequests' = [pendingRequests EXCEPT
           ![f] = [ok |-> TRUE, list |-> Append(reqH[f].reqList, reqH[f].req)]]
    /\ reqH' = [reqH EXCEPT ![f] = [IdleReq EXCEPT !.pc = "decode"]]
    /\ UNCHANGED <<driver, reqStream, respStream, respH, records, exit>>
    /\ UNCHANGED rvars
    /\ UNCHANGED svars

\* handleRequests: the result of append is stored under the flow key
RequestAppend(f) ==
    /\ exit = "running"
    /\ reqH[f].pc = "append_write"
    /\ pendingRequests' = [pendingRequests EXCEPT
           ![f] = [ok |-> TRUE, list |-> Append(reqH[f].reqList, reqH[f].req)]]
    /\ reqH' = [reqH EXCEPT ![f] = [IdleReq EXCEPT !.pc = "decode"]]
    /\ UNCHANGED <<driver, reqStream, respStream, respH, records, exit>>
    /\ UNCHANGED rvars
    /\ UNCHANGED svars

\* handleRequests: io.EOF ends the goroutine
RequestEOF(f) ==
    /\ exit = "running"
    /\ reqH[f].pc = "decode"
    /\ reqStream[f].q = <<>>
    /\ reqStream[f].closed
    /\ reqH' = [reqH EXCEPT ![f].pc = "done"]
    /\ UNCHANGED <<driver, reqStream, respStream, respH, pendingRequests, records, exit>>
    /\ UNCHANGED rvars
    /\ UNCHANGED svars

\* handleResponses: redisReadArray returns a unit; a notification is ignored,
\* any other unit of more than one value is fatal, else the retry loop starts
ResponseDecode(f) ==
    /\ exit = "running"
    /\ respH[f].pc = "decode"
    /\ respStream[f].q # <<>>
    /\ respStream' = [respStream EXCEPT ![f].q = Tail(respStream[f].q)]
    /\ LET u == Head(respStream[f].q) IN
       IF IsNotification(u.lines)
         THEN UNCHANGED <<respH, exit>>
         ELSE IF MultiValue(u.lines)
                THEN /\ respH' = [respH EXCEPT ![f].pc = "fatal_multi",
                                               ![f].lines = u.lines, ![f].id = u.id]
                     /\ exit' = FatalMulti
                ELSE /\ respH' = [respH EXCEPT ![f] =
                                     [IdleResp EXCEPT !.pc = "try", !.lines = u.lines,
                                                      !.id = u.id, !.seen = u.seen]]
                     /\ UNCHANGED exit
    /\ UNCHANGED <<driver, reqStream, reqH, pendingRequests, records>>
    /\ UNCHANGED rvars
    /\ UNCHANGED svars

\* a plausible slip: one pass too many
MoreAttempts_offByOne(i) == i <= MaxAttempts

\* for i := 0; i < 50; i++
MoreAttempts(i) == i < MaxAttempts

\* handleResponses, one pass of the retry loop: the map is read; a present key
\* gives the list whose element 0 is taken (an empty list panics), an absent
\* key gives Fill, a sleep and the next pass
ResponseTry(f) ==
    /\ exit = "running"
    /\ respH[f].pc = "try"
    /\ MoreAttempts(respH[f].i)
    /\ IF pendingRequests[f].ok
         THEN IF pendingRequests[f].list = <<>>
                THEN /\ respH' = [respH EXCEPT ![f].pc = "panic_index"]
                     /\ exit' = PanicIndex
                ELSE /\ respH' = [respH EXCEPT ![f].pc = "pop_write",
                                               ![f].reqList = pendingRequests[f].list]
                     /\ UNCHANGED exit
         ELSE /\ respH' = [respH EXCEPT ![f].i = respH[f].i + 1]
              /\ UNCHANGED exit
    /\ UNCHANGED <<driver, reqStream, respStream, reqH, pendingRequests, records>>
    /\ UNCHANGED rvars
    /\ UNCHANGED svars

\* the line handleResponses prints for a match; the fields after latency are
\* history: which request and which reply were paired, the units they were
\* decoded from and the capture times of these units
Record(f, req, lines, id, now) ==
    [flowKey |-> f, reqType |-> req.reqType, key |-> req.key, value |-> lines[1],
     latency |-> now - req.requestTime, reqId |-> req.id, respId |-> id,
     reqUnit |-> req.unit, respUnit |-> lines, reqSeen |-> req.seen, respSeen |-> 0]

\* handleResponses: the rest of the list is stored under the flow key and the
\* record is printed with s.lastTimestamp as the response time
ResponsePop(f) ==
    /\ exit = "running"
    /\ respH[f].pc = "pop_write"
    /\ pendingRequests' = [pendingRequests EXCEPT
           ![f] = [ok |-> TRUE, list |-> Tail(respH[f].reqList)]]
    /\ records' = [records EXCEPT ![f] = Append(records[f],
           [Record(f, Head(respH[f].reqList), respH[f].lines, respH[f].id,
                   respStream[f].lastTimestamp) EXCEPT !.respSeen = respH[f].seen])]
    /\ respH' = [respH EXCEPT ![f] = [IdleResp EXCEPT !.pc = "decode"]]
    /\ UNCHANGED <<driver, reqStream, respStream, reqH, exit>>
    /\ UNCHANGED rvars
    /\ UNCHANGED svars

\* handleResponses: the loop ended with found = false
ResponseUnmatched(f) ==
    /\ exit = "running"
    /\ respH[f].pc = "try"
    /\ ~MoreAttempts(respH[f].i)
    /\ respH' = [respH EXCEPT ![f].pc = "fatal_unmatched"]
    /\ exit' = FatalUnmatched
    /\ UNCHANGED <<driver, reqStream, respStream, reqH, pendingRequests, records>>
    /\ UNCHANGED rvars
    /\ UNCHANGED svars

\* handleResponses: io.EOF ends the goroutine
ResponseEOF(f) ==
    /\ exit = "running"
    /\ respH[f].pc = "decode"
    /\ respStream[f].q = <<>>
    /\ respStream[f].closed
    /\ respH' = [respH EXCEPT ![f].pc = "done"]
    /\ UNCHANGED <<driver, reqStream, respStream, reqH, pendingRequests, records, exit>>
    /\ UNCHANGED rvars
    /\ UNCHANGED svars

\* The goroutines about to store into the map, and those about to read it or
\* store into it.  No lock guards pendingRequests.
MapWriters ==
    {<<f, "req">> : f \in {g \in Flows : reqH[g].pc = "append_write"}}
        \cup {<<f, "resp">> : f \in {g \in Flows : respH[g].pc = "pop_write"}}

MapAccessors ==
    MapWriters
        \cup {<<f, "resp">> : f \in {g \in Flows : respH[g].pc = "try"
                                                   /\ MoreAttempts(respH[g].i)}}
        \cup {<<f, "req">> : f \in {g \in Flows : reqH[g].pc = "decode"
                                                  /\ reqStream[g].q # <<>>}}

\* the Go runtime meets a map store of one goroutine together with a map
\* access of another and throws (the other outcomes of the race are the
\* interleavings of the read and store steps above)
ConcurrentMapAccess ==
    /\ exit = "running"
    /\ \E w \in MapWriters : \E a \in MapAccessors : a # w
    /\ exit' = FatalMapRace
    /\ UNCHANGED cvars
    /\ UNCHANGED rvars
    /\ UNCHANGED svars

-----------------------------------------------------------------------------
\* scan/scan.go: the dispatcher, the decoder and the handler of one stream

redisPort == 6379

\* the bytes the decoder looks at: '$' '*' '+' '-' ':' and the digits
Dollar == 36
Star == 42
Plus == 43
Minus == 45
Colon == 58
Digit0 == 48
Digit1 == 49
Digit2 == 50

\* the strings "$-1" and "not-found"
NullLine == <<Dollar, Minus, Digit1>>
NotFound == <<110, 111, 116, 45, 102, 111, 117, 110, 100>>

FatalArray == "fatal: redisReadArray: elements array"
FatalDecode == "fatal: redisReadArray EOF"
FatalShort == "fatal: expected n characters"

\* the endpoints of the captured connections
Addrs == {"10.0.0.1", "10.0.0.2"}
Ports == {redisPort, 50000, 50001}
Endpoints == Addrs \X Ports

\* a flow as the reassembly engine names it: net.Src, transport.Src, net.Dst,
\* transport.Dst
Tuples == {t \in Endpoints \X Endpoints : t[1] # t[2]}
Reverse(t) == <<t[2], t[1]>>

\* fmt.Sprintf("%s:%s->%s:%s", a, ap, b, bp)
Sprintf(from, to) == <<from[1], ":", from[2], "->", to[1], ":", to[2]>>

\* a plausible slip: both branches build the key from source to destination
New_sameOrder(t) ==
    LET clientRequest == t[2][2] = redisPort IN
    [tuple |-> t,
     clientRequest |-> clientRequest,
     flowKey |-> Sprintf(t[1], t[2])]

\* redisStreamFactory.New: the direction by the destination port, the flow
\* key written from the client side to the server side
New(t) ==
    LET clientRequest == t[2][2] = redisPort IN
    [tuple |-> t,
     clientRequest |-> clientRequest,
     flowKey |-> IF clientRequest THEN Sprintf(t[1], t[2]) ELSE Sprintf(t[2], t[1])]

\* the goroutine of a stream before its first step, and the decoder's frame:
\* n and i of the array loop, the lines decoded so far, where the unit and
\* its current scalar began, and one entry per decoded scalar
NoDec == [pc |-> "none", n |-> 0, i |-> 0, lines |-> <<>>, start |-> 0,
          estart |-> 0, elems |-> <<>>]
NoUnit == [lines |-> <<>>, timestamp |-> defaultTime, err |-> "none",
           start |-> 0, end |-> 0, elems |-> <<>>]

ScanIdle ==
    /\ streams = <<>>
    /\ wg = 0
    /\ dec = NoDec
    /\ decoded = NoUnit
    /\ scanMain = "reading"

\* strconv.Atoi with its error dropped: the value of an optionally signed
\* decimal numeral, 0 for anything else
RECURSIVE Decimal(_)
Decimal(s) ==
    IF s = <<>> THEN 0 ELSE Decimal(SubSeq(s, 1, Len(s) - 1)) * 10 + (s[Len(s)] - Digit0)

Atoi(s) ==
    LET signed == Len(s) > 0 /\ s[1] \in {Plus, Minus}
        body == IF signed THEN Tail(s) ELSE s
    IN IF body = <<>> \/ \E k \in 1..Len(body) : body[k] \notin Digit0..(Digit0 + 9)
         THEN 0
         ELSE IF signed /\ s[1] = Minus THEN 0 - Decimal(body) ELSE Decimal(body)

\* a plausible slip: the bulk-string branch is tried before the null check
redisReadString0_lengthFirst(line, timestamp) ==
    IF line[1] = Plus
      THEN [do |-> "return", line |-> Tail(line), timestamp |-> timestamp, n |-> 0]
      ELSE IF line[1] = Dollar
             THEN [do |-> "ReadLineN", line |-> line, timestamp |-> timestamp,
                   n |-> Atoi(Tail(line))]
             ELSE IF line = NullLine
                    THEN [do |-> "return", line |-> NotFound, timestamp |-> timestamp,
                          n |-> 0]
                    ELSE IF line[1] = Colon
                           THEN [do |-> "return", line |-> Tail(line),
                                 timestamp |-> timestamp, n |-> 0]
                           ELSE [do |-> "return", line |-> line,
                                 timestamp |-> timestamp, n |-> 0]

\* redisReadString0, up to its call of ReadLineN: what it returns at once, or
\* the n it reads a bulk string with
redisReadString0(line, timestamp) ==
    IF line[1] = Plus
      THEN [do |-> "return", line |-> Tail(line), timestamp |-> timestamp, n |-> 0]
      ELSE IF line = NullLine
             THEN [do |-> "return", line |-> NotFound, timestamp |-> timestamp,
                   n |-> 0]
             ELSE IF line[1] = Dollar
                    THEN [do |-> "ReadLineN", line |-> line, timestamp |-> timestamp,
                          n |-> Atoi(Tail(line))]
                    ELSE IF line[1] = Colon
                           THEN [do |-> "return", line |-> Tail(line),
                                 timestamp |-> timestamp, n |-> 0]
                           ELSE [do |-> "return", line |-> line,
                                 timestamp |-> timestamp, n |-> 0]

\* the decoder calls tp.ReadLine
EnterReadLine ==
    /\ call' = [NoCall EXCEPT !.op = "ReadLine", !.start = Len(returned)]
    /\ ret' = NoRet
    /\ UNCHANGED exit

\* the decoder calls tp.ReadLineN(n), which panics for n <= 0
EnterReadLineN(n) ==
    IF n <= 0
      THEN /\ exit' = PanicN
           /\ call' = NoCall
           /\ ret' = [NoRet EXCEPT !.op = "ReadLineN", !.n = n, !.err = Panic,
                                   !.start = Len(returned), !.end = Len(returned)]
      ELSE /\ call' = [NoCall EXCEPT !.op = "ReadLineN", !.n = n, !.stage = "payload",
                                     !.start = Len(returned)]
           /\ ret' = NoRet
           /\ UNCHANGED exit

\* the entry of elems for the scalar that has just been decoded
Elem(exact) == [start |-> dec.estart, end |-> Len(returned), exact |-> exact]

\* redisReadArrayOrString returns lines, timestamp, nil: the handler logs the
\* unit and goes round its loop
ReturnUnit(lines, timestamp, elems) ==
    /\ decoded' = [lines |-> lines, timestamp |-> timestamp, err |-> ErrNil,
                start |-> dec.start, end |-> Len(returned), elems |-> elems]
    /\ dec' = [NoDec EXCEPT !.pc = "loop"]
    /\ UNCHANGED <<call, ret, exit, wg>>

\* redisReadArrayOrString returns []string{}, timestamp, io.EOF: the handler
\* returns, and its deferred wg.Done() runs
ReturnEOF(timestamp) ==
    /\ decoded' = [lines |-> <<>>, timestamp |-> timestamp, err |-> EndOfStream,
                start |-> dec.start, end |-> Len(returned), elems |-> dec.elems]
    /\ dec' = [NoDec EXCEPT !.pc = "done"]
    /\ wg' = wg - 1
    /\ UNCHANGED <<call, ret, exit>>

\* log.Fatal inside the decoder
DecodeFatal(how) ==
    /\ exit' = how
    /\ dec' = [dec EXCEPT !.pc = "fatal"]
    /\ UNCHANGED <<call, ret, decoded, wg>>

\* the array loop of redisReadArrayOrString has decoded one more element
NextElement(line, timestamp, exact) ==
    LET lines == Append(dec.lines, line)
        elems == Append(dec.elems, Elem(exact))
    IN IF dec.i + 1 < dec.n
         THEN /\ dec' = [dec EXCEPT !.pc = "elem", !.i = dec.i + 1, !.lines = lines,
                                    !.elems = elems, !.estart = Len(returned)]
              /\ EnterReadLine
              /\ UNCHANGED <<decoded, wg>>
         ELSE ReturnUnit(lines, timestamp, elems)

\* handleRequests / handleResponses: the top of the loop, redisReadArrayOrString
\* is entered and reads its first line
DecodeBegin ==
    /\ dec.pc = "loop"
    /\ dec' = [NoDec EXCEPT !.pc = "first", !.start = Len(returned),
                            !.estart = Len(returned)]
    /\ EnterReadLine
    /\ UNCHANGED <<decoded, wg>>

\* redisReadArrayOrString after its first ReadLine
DecodeFirst ==
    /\ dec.pc = "first"
    /\ ret.op = "ReadLine"
    /\ IF ret.err # ErrNil
         THEN ReturnEOF(ret.timestamp)
         ELSE IF ret.line[1] = Star
                THEN LET n == Atoi(Tail(ret.line)) IN
                     IF n < 1
                       THEN DecodeFatal(FatalArray)
                       ELSE /\ dec' = [dec EXCEPT !.pc = "elem", !.n = n, !.i = 0,
                                                  !.estart = Len(returned)]
                            /\ EnterReadLine
                            /\ UNCHANGED <<decoded, wg>>
                ELSE LET r0 == redisReadString0(ret.line, ret.timestamp) IN
                     IF r0.do = "return"
                       THEN ReturnUnit(<<r0.line>>, r0.timestamp, <<Elem(FALSE)>>)
                       ELSE /\ dec' = [dec EXCEPT !.pc = "bulk_top", !.n = r0.n]
                            /\ EnterReadLineN(r0.n)
                            /\ UNCHANGED <<decoded, wg>>

\* redisReadString after its ReadLine, for an element of an array
DecodeElem ==
    /\ dec.pc = "elem"
    /\ ret.op = "ReadLine"
    /\ IF ret.err = EndOfStream
         THEN ReturnEOF(ret.timestamp)
         ELSE LET r0 == redisReadString0(ret.line, ret.timestamp) IN
              IF r0.do = "return"
                THEN NextElement(r0.line, r0.timestamp, FALSE)
                ELSE /\ dec' = [dec EXCEPT !.pc = "bulk_elem"]
                     /\ EnterReadLineN(r0.n)
                     /\ UNCHANGED <<decoded, wg>>

\* redisReadString0 after its ReadLineN, for a top-level bulk string: io.EOF
\* comes back as an error, which redisReadArrayOrString answers with log.Fatal
DecodeBulkTop ==
    /\ dec.pc = "bulk_top"
    /\ ret.op = "ReadLineN"
    /\ IF ret.err = EndOfStream
         THEN DecodeFatal(FatalDecode)
         ELSE IF Len(ret.line) < ret.n
                THEN DecodeFatal(FatalShort)
                ELSE ReturnUnit(<<ret.line>>, ret.timestamp, <<Elem(TRUE)>>)

\* redisReadString0 after its ReadLineN, for a bulk string in an array
DecodeBulkElem ==
    /\ dec.pc = "bulk_elem"
    /\ ret.op = "ReadLineN"
    /\ IF ret.err = EndOfStream
         THEN ReturnEOF(ret.timestamp)
         ELSE IF Len(ret.line) < ret.n
                THEN DecodeFatal(FatalShort)
                ELSE NextElement(ret.line, ret.timestamp, TRUE)

\* the handler goroutine between two calls of the reader
DecodeStep ==
    /\ exit = "running"
    /\ call.op = "none"
    /\ \/ DecodeBegin
       \/ DecodeFirst
       \/ DecodeElem
       \/ DecodeBulkTop
       \/ DecodeBulkElem
    /\ UNCHANGED <<reassembled, closed, current, currentByteIndex, accepted,
                   returned, segClock, streams, scanMain>>
    /\ UNCHANGED cvars

\* the first segment of a flow reaches the dispatcher: New makes the stream,
\* counts it in wg and starts its handler (dec is the handler goroutine of the
\* first stream, whose ReaderStream is the one modelled)
NewFlow(t, max) ==
    /\ exit = "running"
    /\ scanMain = "reading"
    /\ Len(streams) < max
    /\ \A k \in 1..Len(streams) : streams[k].tuple # t
    /\ streams' = Append(streams, New(t))
    /\ wg' = wg + 1
    /\ dec' = IF streams = <<>> THEN [NoDec EXCEPT !.pc = "loop"] ELSE dec
    /\ UNCHANGED <<decoded, scanMain, exit>>
    /\ UNCHANGED rvars
    /\ UNCHANGED cvars

\* main() of scan.go at the end of the capture: assembler.FlushAll()
ScanFlushAll ==
    /\ exit = "running"
    /\ scanMain = "reading"
    /\ scanMain' = "waiting"
    /\ closed' = TRUE
    /\ UNCHANGED <<reassembled, current, currentByteIndex, call, ret, accepted,
                   returned, segClock, streams, wg, dec, decoded, exit>>
    /\ UNCHANGED cvars

\* main() of scan.go: wg.Wait() returns, the summary is logged, main returns
ScanSummary ==
    /\ exit = "running"
    /\ scanMain = "waiting"
    /\ wg = 0
    /\ scanMain' = "reported"
    /\ exit' = MainReturned
    /\ UNCHANGED <<streams, wg, dec, decoded>>
    /\ UNCHANGED rvars
    /\ UNCHANGED cvars

-----------------------------------------------------------------------------
\* The specifications of the correlator

InitCorrelator ==
    /\ NewReaderStream
    /\ CorrIdle
    /\ ScanIdle
    /\ exit = "running"

\* what the goroutines do, whatever the capture
Handlers ==
    \/ \E f \in Flows : RequestDecode(f)
    \/ \E f \in Flows : RequestAppend(f)
    \/ \E f \in Flows : RequestEOF(f)
    \/ \E f \in Flows : ResponseDecode(f)
    \/ \E f \in Flows : ResponseTry(f)
    \/ \E f \in Flows : ResponsePop(f)
    \/ \E f \in Flows : ResponseUnmatched(f)
    \/ \E f \in Flows : ResponseEOF(f)
    \/ ConcurrentMapAccess

\* The correlator specification: a capture of up to MaxCapture segments of
\* two connections.
NextCorrelator ==
    \/ \E f \in Flows : PacketRequest(f, MaxCapture)
    \/ \E f \in Flows : PacketResponse(f, MaxCapture)
    \/ FlushAll
    \/ Summary
    \/ Handlers

SpecCorrelator == InitCorrelator /\ [][NextCorrelator]_vars

\* The pairing specification: a capture of up to MaxPackets segments of one
\* connection.
NextPairing ==
    \/ PacketRequest("c1", MaxPackets)
    \/ PacketResponse("c1", MaxPackets)
    \/ FlushAll
    \/ Summary
    \/ Handlers

SpecPairing == InitCorrelator /\ [][NextPairing]_vars

-----------------------------------------------------------------------------
\* The byte-stream specification: one ReaderStream, the reassembly engine
\* accepting batches and completing, the reader task calling ReadLine and
\* ReadLineN in any order.

InitReader ==
    /\ NewReaderStream
    /\ CorrIdle
    /\ ScanIdle
    /\ exit = "running"

Accept ==
    \E p \in Batches(MaxBatchLen, MaxBytes - Len(accepted)) \ {<<>>} :
        Reassembled(p)

DoReadLineN == \E n \in 0..MaxN : CallReadLineN(n)

NextReader ==
    \/ Accept
    \/ ReassemblyComplete
    \/ CallReadLine
    \/ DoReadLineN
    \/ ReadLineStep
    \/ ReadLineNStep

SpecReader == InitReader /\ [][NextReader]_vars

\* The overflow specification: the engine accepts one-byte batches while the
\* reader task lags (it drains at most MaxDrain bytes).
MaxDrain == 2

AcceptOne ==
    /\ Len(accepted) <= ChanCap + MaxDrain
    /\ \E b \in PlainBytes : Reassembled(<<<<b>>>>)

DrainStep ==
    /\ Len(returned) < MaxDrain
    /\ ReadLineStep

NextOverflow ==
    \/ AcceptOne
    \/ CallReadLine
    \/ DrainStep

SpecOverflow == InitReader /\ [][NextOverflow]_vars

-----------------------------------------------------------------------------
\* The decoder specification: scan.go on a capture of one flow.  The engine
\* delivers up to MaxSegs segments, each a piece of the protocol, and is at
\* most MaxQueued batches ahead of the handler; main flushes and waits.
MaxSegs == 4
MaxQueued == 1

\* "*1" "*2" "+a" ":1" "$-1" "$1" "$0" and "a", each with its CR LF, the bare
\* payload "a", and a CR LF alone
Pieces ==
    {<<Star, Digit1, CR, LF>>, <<Star, Digit2, CR, LF>>,
     <<Plus, 97, CR, LF>>, <<Colon, Digit1, CR, LF>>,
     <<Dollar, Minus, Digit1, CR, LF>>,
     <<Dollar, Digit1, CR, LF>>, <<Dollar, Digit0, CR, LF>>,
     <<97, CR, LF>>, <<97>>, <<CR, LF>>}

\* the flow whose stream is decoded: a client port to the redis port
ClientFlow == <<<<"10.0.0.1", 50000>>, <<"10.0.0.2", redisPort>>>>

FirstSegment == NewFlow(ClientFlow, 1)

Feed ==
    /\ streams # <<>>
    /\ scanMain = "reading"
    /\ segClock < MaxSegs
    /\ Len(reassembled) < MaxQueued
    /\ \E seg \in Pieces : Reassembled(<<seg>>)

NextDecoder ==
    \/ FirstSegment
    \/ Feed
    \/ ScanFlushAll
    \/ ScanSummary
    \/ DecodeStep
    \/ ReadLineStep
    \/ ReadLineNStep

SpecDecoder == InitReader /\ [][NextDecoder]_vars

\* The same under the Go scheduler: a goroutine that can run does run, so the
\* handler's steps, in the decoder and in the reader, and main's return from
\* wg.Wait() are taken when they stay possible.
SpecTermination ==
    /\ SpecDecoder
    /\ WF_vars(DecodeStep)
    /\ WF_vars(ReadLineStep)
    /\ WF_vars(ReadLineNStep)
    /\ WF_vars(ScanSummary)

\* The dispatcher specification: the first segments of up to MaxStreams flows
\* between any two endpoints reach redisStreamFactory.New.
MaxStreams == 2

NextDispatcher == \E t \in Tuples : NewFlow(t, MaxStreams)

SpecDispatcher == InitReader /\ [][NextDispatcher]_vars
-----------------------------------------------------------------------------
\* Properties of the byte stream

\* the accepted bytes that read() has not yet returned
Pending ==
    LET cur == TaggedAll(current) IN
    SubSeq(cur, currentByteIndex + 1, Len(cur)) \o TaggedChan(reassembled)

\* C6: Accept never blocks and never fails, however many accepted batches the
\* reader task has not consumed yet: the process never ends in the panic of a
\* full channel.
C6_AcceptNeverFails == exit # PanicBlocked

\* C7: the bytes returned by successive reads, each with its time, followed by
\* the bytes still buffered, are the accepted bytes in acceptance order, each
\* with the time of the segment that carried it: nothing lost, duplicated or
\* reordered across segment and batch boundaries.
C7_OrderPreserved == returned \o Pending = accepted

\* C7 witness: three bytes of different segments have been read while a later
\* batch is still waiting in the channel
C7_Witness ==
    /\ Len(returned) >= 3
    /\ returned[1].t # returned[3].t
    /\ Len(reassembled) > 0

\* the stream holds, from position s, n payload bytes followed by CR LF
Positioned(s, n) ==
    /\ Len(accepted) >= s + n + 2
    /\ accepted[s + n + 1].b = CR
    /\ accepted[s + n + 2].b = LF

\* a finished ReadLineN returned the n payload bytes, consumed n+2 bytes and
\* returned the time of the last payload byte
ExactResult ==
    /\ ret.err = ErrNil
    /\ ret.line = BytesOf(SubSeq(accepted, ret.start + 1, ret.start + ret.n))
    /\ ret.end = ret.start + ret.n + 2
    /\ ret.timestamp = accepted[ret.start + ret.n].t

BadTerminator(s, n) ==
    \/ Len(accepted) >= s + n + 1 /\ accepted[s + n + 1].b # CR
    \/ Len(accepted) >= s + n + 2 /\ accepted[s + n + 2].b # LF

\* C9: a finished ReadLineN(n) failed with ProtocolViolation if and only if a
\* byte following the n payload bytes is present in the stream and is not the
\* CR, respectively the LF, it should be.
C9_ViolationIffBadTerminator ==
    (ret.op = "ReadLineN" /\ ret.n >= 1)
        => ((ret.err = ProtocolViolation) <=> BadTerminator(ret.start, ret.n))

\* C10: a read whose supply ran out (the channel closed and drained) returns
\* EndOfStream wherever in the call that happened, and a read on a closed
\* stream never blocks.
C10_EndOfStreamOnExhaustion ==
    /\ ret.ranOut => ret.err = EndOfStream
    /\ (closed /\ call.op # "none" /\ exit = "running") => ReadNow.st # "block"
\* the bytes of the stream that a finished call consumed
Consumed == BytesOf(SubSeq(accepted, ret.start + 1, ret.end))

\* s without its last byte
Front(s) == SubSeq(s, 1, Len(s) - 1)

\* a line without its terminator: the bytes before the line feed, a trailing
\* carriage return removed
Content(l) ==
    LET body == Front(l) IN
    IF Len(body) > 0 /\ body[Len(body)] = CR THEN Front(body) ELSE body

\* a finished ReadLine consumed one line: it stopped at the first line feed
OneLine ==
    /\ ret.end > ret.start
    /\ Consumed[Len(Consumed)] = LF
    /\ \A k \in 1..(Len(Consumed) - 1) : Consumed[k] # LF

\* C11: a successful ReadLine consumed the bytes up to and including the first
\* line feed and returned the bytes before that line feed with a trailing
\* carriage return removed, so the content holds no line feed, for a line
\* ended by CR LF and for a line ended by a bare LF; the timestamp is that of
\* the segment carrying the line feed, and the next read starts after it.
C11_LineWithoutTerminator ==
    (ret.op = "ReadLine" /\ ret.err = ErrNil) =>
        /\ OneLine
        /\ ret.line = Content(Consumed)
        /\ \A k \in 1..Len(ret.line) : ret.line[k] # LF
        /\ ret.timestamp = accepted[ret.end].t
        /\ Len(returned) = ret.end

\* C12: a ReadLine that met a line feed fails with ProtocolViolation exactly
\* when the line has no content before its terminator, and a successful
\* ReadLine never returns empty content.
C12_EmptyLineIsViolation ==
    (ret.op = "ReadLine" /\ ret.err \in {ErrNil, ProtocolViolation}) =>
        /\ (Content(Consumed) = <<>>) <=> (ret.err = ProtocolViolation)
        /\ ret.err = ErrNil => Len(ret.line) > 0
-----------------------------------------------------------------------------
\* Properties of the dispatcher and of the decoder

\* the two streams are the two directions of one connection
SameConnection(a, b) == a.tuple = Reverse(b.tuple)

\* both directions resolve to one key and one of them emits the requests
Canonical(a, b) ==
    /\ a.flowKey = b.flowKey
    /\ a.clientRequest # b.clientRequest

\* C19 as stated: for every connection, whatever its endpoints and ports, the
\* flow keys of its two directions are equal and exactly one of the two
\* directions is classified as request-emitting.
C19_CanonicalAnyPorts ==
    \A i, j \in 1..Len(streams) :
        SameConnection(streams[i], streams[j]) => Canonical(streams[i], streams[j])

\* exactly one of the two ports of the flow is the redis port
OneRedisPort(t) == (t[1][2] = redisPort) # (t[2][2] = redisPort)

\* C19 amended: the same for every connection of which exactly one port is
\* the redis port.
C19_CanonicalRedisConnection ==
    \A i, j \in 1..Len(streams) :
        (SameConnection(streams[i], streams[j]) /\ OneRedisPort(streams[i].tuple))
            => Canonical(streams[i], streams[j])

\* C19 witness: both directions of a connection to the redis port have reached
\* the dispatcher, the response direction first
C19_Witness ==
    /\ Len(streams) = 2
    /\ SameConnection(streams[1], streams[2])
    /\ ~streams[1].clientRequest
    /\ streams[2].clientRequest

\* the bytes of the stream
Stream == BytesOf(accepted)

\* the grammar, read off the stream after position p: a line and its end
RefLine(p) ==
    LET ends == {k \in (p + 1)..Len(Stream) : Stream[k] = LF} IN
    IF ends = {}
      THEN [ok |-> FALSE, text |-> <<>>, end |-> p]
      ELSE LET e == CHOOSE k \in ends : \A m \in ends : k <= m IN
           [ok |-> e >= p + 3 /\ Stream[e - 1] = CR,
            text |-> SubSeq(Stream, p + 1, e - 2), end |-> e]

IsDigits(s) == Len(s) > 0 /\ \A k \in 1..Len(s) : s[k] \in Digit0..(Digit0 + 9)

\* a scalar after position p: simple string, integer, null or bulk string
RefScalar(p) ==
    LET l == RefLine(p)
        bad == [ok |-> FALSE, value |-> <<>>, end |-> p]
    IN IF ~l.ok THEN bad
       ELSE IF l.text[1] = Plus \/ (l.text[1] = Colon /\ IsDigits(Tail(l.text)))
              THEN [ok |-> TRUE, value |-> Tail(l.text), end |-> l.end]
       ELSE IF l.text = NullLine
              THEN [ok |-> TRUE, value |-> NotFound, end |-> l.end]
       ELSE IF l.text[1] = Dollar /\ IsDigits(Tail(l.text))
              THEN LET n == Decimal(Tail(l.text)) IN
                   IF /\ Len(Stream) >= l.end + n + 2
                      /\ Stream[l.end + n + 1] = CR
                      /\ Stream[l.end + n + 2] = LF
                     THEN [ok |-> TRUE, value |-> SubSeq(Stream, l.end + 1, l.end + n),
                           end |-> l.end + n + 2]
                     ELSE bad
       ELSE bad

\* n scalars after position p
RECURSIVE RefScalars(_, _)
RefScalars(p, n) ==
    IF n = 0
      THEN [ok |-> TRUE, values |-> <<>>, end |-> p]
      ELSE LET v == RefScalar(p) IN
           IF ~v.ok
             THEN [ok |-> FALSE, values |-> <<>>, end |-> p]
             ELSE LET rest == RefScalars(v.end, n - 1) IN
                  [ok |-> rest.ok, values |-> <<v.value>> \o rest.values,
                   end |-> rest.end]

\* a unit after position p: an array of n >= 1 scalars, or one scalar
RefUnit(p) ==
    LET l == RefLine(p) IN
    IF l.ok /\ l.text[1] = Star
      THEN IF IsDigits(Tail(l.text)) /\ Decimal(Tail(l.text)) >= 1
             THEN RefScalars(l.end, Decimal(Tail(l.text)))
             ELSE [ok |-> FALSE, values |-> <<>>, end |-> p]
      ELSE RefScalars(p, 1)

\* redisReadArrayOrString is at work on a unit
Decoding == dec.pc \in {"first", "elem", "bulk_top", "bulk_elem"}

\* C13: a unit that is in the stream as an array header "*n", n >= 1, with n
\* valid scalars after it, or as one valid scalar, is decoded: the decoder does
\* not abort on it, and when it returns it returns the values of the scalars
\* in order (n of them for the array, one otherwise) and has consumed exactly
\* the bytes of the unit.
C13_DecodesValidUnit ==
    /\ (Decoding /\ RefUnit(dec.start).ok) => exit \in {"running", MainReturned}
    /\ (decoded.err = ErrNil /\ RefUnit(decoded.start).ok) =>
          /\ decoded.lines = RefUnit(decoded.start).values
          /\ decoded.end = RefUnit(decoded.start).end
    /\ (decoded.err = ErrNil /\ Stream[decoded.start + 1] # Star) =>
          Len(decoded.lines) = 1

\* the line after position p is "$-1"
NullAt(p) ==
    /\ Len(Stream) >= p + 5
    /\ SubSeq(Stream, p + 1, p + 5) = NullLine \o <<CR, LF>>

\* C14: the line "$-1" decodes to "not-found" and nothing after the line is
\* consumed for it, as a unit of its own and as an element of an array, and
\* ReadLineN is never called for it.
C14_NullIsNotFound ==
    /\ decoded.err = ErrNil =>
          \A k \in 1..Len(decoded.elems) :
              NullAt(decoded.elems[k].start) =>
                  /\ decoded.lines[k] = NotFound
                  /\ decoded.elems[k].end = decoded.elems[k].start + 5
                  /\ ~decoded.elems[k].exact
    /\ (Decoding /\ NullAt(dec.estart)) => (call.op # "ReadLineN" /\ ret.op # "ReadLineN")

\* C14 witness: an array of two elements was decoded whose first element is
\* the null and whose second is not
C14_Witness ==
    /\ decoded.err = ErrNil
    /\ Len(decoded.lines) = 2
    /\ NullAt(decoded.elems[1].start)
    /\ decoded.lines[2] # NotFound

\* C15: when the stream ends inside redisReadArrayOrString, at its first line,
\* in an element of an array or in a top-level bulk string, the decoder
\* returns EndOfStream and the handler ends normally: the process is not
\* aborted.
C15_EndOfStreamEndsHandler ==
    ret.ranOut =>
        /\ exit \in {"running", MainReturned}
        /\ ~Decoding => (dec.pc = "done" /\ decoded.err = EndOfStream)

\* C20: the timestamp returned with a unit is that of the segment of the last
\* byte consumed for the unit, also when the CR LF of a final bulk string
\* arrives in a later segment than the last byte of its payload.
C20_TimestampOfLastByte ==
    decoded.err = ErrNil => decoded.timestamp = accepted[decoded.end].t
-----------------------------------------------------------------------------
\* Properties of the correlator

\* C1: on a connection whose every request was delivered before the reply of
\* the same index, every emitted record pairs reply i with request i, under
\* every interleaving of the two handlers.
C1_FifoPairing ==
    \A f \in Flows :
        driver.inOrder[f] =>
            \A k \in 1..Len(records[f]) : records[f][k].reqId = records[f][k].respId

\* C2: access to a flow's pending queue is serialized: the request handler is
\* never between the read and the store of its append while the response
\* handler of the same flow is between the read and the store of its pop.
C2_Serialized ==
    \A f \in Flows : ~(reqH[f].pc = "append_write" /\ respH[f].pc = "pop_write")

\* C3: the pending queue is never popped while empty: a response that finds
\* no request in its flow's queue takes no head element (it retries instead),
\* so the handler never dies indexing an empty list.
C3_NeverPopsEmpty ==
    \A f \in Flows : respH[f].pc # "panic_index"

\* a pass of the retry loop, or the end of the loop, of flow f's response handler
RetryStep(f) ==
    /\ respH[f].pc = "try"
    /\ respH'[f] # respH[f]
    /\ respH'[f].pc \in {"try", "fatal_unmatched"}

\* C4: the response handler makes at most MaxAttempts (50) pop attempts; when
\* all of them found no pending request it raises UnmatchedResponse, which is
\* neither a protocol violation nor the end of the stream, and it does so with
\* no record emitted for that response; the failed attempts and the raise
\* leave the pending queue and the records as they were.
C4_UnmatchedAfterBudget ==
    /\ [](\A f \in Flows :
            /\ respH[f].i <= MaxAttempts
            /\ respH[f].pc = "fatal_unmatched" =>
                  /\ respH[f].i = MaxAttempts
                  /\ exit = FatalUnmatched
                  /\ \A k \in 1..Len(records[f]) : records[f][k].respId # respH[f].id)
    /\ [][\A f \in Flows :
            /\ RetryStep(f) =>
                  /\ pendingRequests' = pendingRequests
                  /\ records' = records
            /\ (RetryStep(f) /\ respH[f].i = MaxAttempts) =>
                  /\ respH'[f].pc = "fatal_unmatched"
                  /\ exit' = FatalUnmatched]_vars

\* C4 witness: a response has been declared unmatched after its last attempt
C4_Witness ==
    \E f \in Flows :
        /\ respH[f].pc = "fatal_unmatched"
        /\ respH[f].i = MaxAttempts
        /\ records[f] = <<>>

\* C5: failure isolation: when the response handler of one flow raises
\* UnmatchedResponse or ProtocolViolation, no handler of another flow is
\* stopped short of its own EndOfStream.
C5_FailureIsolation ==
    \A f \in Flows :
        respH[f].pc \in {"fatal_unmatched", "fatal_multi"} =>
            \A g \in Flows \ {f} :
                /\ reqH[g].pc \in {"none", "done"}
                /\ respH[g].pc \in {"none", "done"}

\* C16: on a connection whose segments carry non-decreasing capture times
\* and whose every reply was captured after its request, every emitted
\* record has a latency of at least zero, under every interleaving of the
\* driver and the two handlers.
C16_LatencyNonNegative ==
    \A f \in Flows :
        driver.inOrder[f] =>
            \A k \in 1..Len(records[f]) : records[f][k].latency >= 0

\* C17: every emitted record carries the first element of the paired request
\* unit as its type, the unit's second element, or the empty string when there
\* is none, as its key, the single scalar of the reply as its value, and the
\* capture time of the reply minus the capture time of the request as its
\* latency; and a reply is in at most one record.
C17_RecordFields ==
    \A f \in Flows :
        \A k \in 1..Len(records[f]) :
            LET r == records[f][k] IN
            /\ r.reqType = r.reqUnit[1]
            /\ r.key = IF Len(r.reqUnit) > 1 THEN r.reqUnit[2] ELSE ""
            /\ r.respUnit = <<r.value>>
            /\ r.latency = r.respSeen - r.reqSeen
            /\ \A j \in 1..Len(records[f]) : records[f][j].respId = r.respId => j = k

\* C18: the summary is reported only after every started handler has
\* finished: in no state has main reported the totals while a handler is
\* still running.
C18_SummaryAfterHandlers ==
    exit = MainReturned =>
        \A f \in Flows :
            /\ reqH[f].pc \in {"none", "done"}
            /\ respH[f].pc \in {"none", "done"}

\* the requests of flow f that are held somewhere: in the pending queue, in
\* the hands of the request handler between its read and its store, in the
\* list the response handler read for its pop
HeldRequests(f) ==
    {pendingRequests[f].list[k] : k \in 1..Len(pendingRequests[f].list)}
        \cup (IF reqH[f].pc = "append_write" THEN {reqH[f].req} ELSE {})
        \cup {respH[f].reqList[k] : k \in 1..Len(respH[f].reqList)}

\* C21: the timestamp stored in a pending request is the timestamp of the
\* request unit it was built from, however many later segments of the same
\* direction were delivered before the request handler decoded the unit.
C21_RequestTimeIsUnitTime ==
    \A f \in Flows : \A r \in HeldRequests(f) : r.requestTime = r.seen

\* the response handler of flow f takes the next unit off its stream
TakesUnit(f) ==
    /\ respH[f].pc = "decode"
    /\ respStream[f].q # <<>>
    /\ respStream'[f].q = Tail(respStream[f].q)

\* C22: a response-direction unit whose first scalar is "pmessage" is
\* discarded: the step that takes it emits no record, pops nothing, starts no
\* retry and leaves the pending queue as it was, whatever is in the queue and
\* however long the unit is.
C22_NotificationDiscarded ==
    [][\A f \in Flows :
          (TakesUnit(f) /\ Head(respStream[f].q).lines[1] = "pmessage") =>
              /\ records' = records
              /\ pendingRequests' = pendingRequests
              /\ respH' = respH
              /\ exit' = exit]_vars

\* C22 witness: a notification has been taken and discarded while a request
\* was pending
C22_Witness ==
    \E f \in Flows :
        /\ respStream[f].seen >= 1
        /\ respStream[f].sent = 0
        /\ respStream[f].q = <<>>
        /\ respH[f].pc = "decode"
        /\ pendingRequests[f].list # <<>>
        /\ records[f] = <<>>
        /\ exit = "running"

\* C23: a response unit of more than one scalar that is no notification fails
\* with ProtocolViolation at the step that takes it, before any pop: no record
\* is emitted and the pending queue is unchanged.
C23_MultiValueIsViolation ==
    [][\A f \in Flows :
          (/\ TakesUnit(f)
           /\ Head(respStream[f].q).lines[1] # "pmessage"
           /\ Len(Head(respStream[f].q).lines) > 1) =>
              /\ respH'[f].pc = "fatal_multi"
              /\ exit' = FatalMulti
              /\ records' = records
              /\ pendingRequests' = pendingRequests]_vars

\* C23 witness: a reply of two scalars was refused while a request was pending
C23_Witness ==
    \E f \in Flows :
        /\ respH[f].pc = "fatal_multi"
        /\ Len(respH[f].lines) = 2
        /\ pendingRequests[f].list # <<>>
        /\ records[f] = <<>>

\* the request handler of flow f has a step to take: a unit to decode or a
\* store to make
RequestHasWork(f) ==
    \/ reqH[f].pc = "decode" /\ (reqStream[f].q # <<>> \/ reqStream[f].closed)
    \/ reqH[f].pc = "append_write"

\* the response handler of flow f has a step to take
ResponseHasWork(f) ==
    \/ respH[f].pc = "decode" /\ (respStream[f].q # <<>> \/ respStream[f].closed)
    \/ respH[f].pc \in {"try", "pop_write"}

RequestCanStep(f) ==
    ENABLED (RequestDecode(f) \/ RequestAppend(f) \/ RequestEOF(f))

ResponseCanStep(f) ==
    ENABLED (ResponseDecode(f) \/ ResponseTry(f) \/ ResponsePop(f)
                \/ ResponseUnmatched(f) \/ ResponseEOF(f))

\* C24: while the process runs, a request handler that has a unit to decode
\* or a store to make can take that step whatever the response direction is
\* doing, and while a response handler is in its retry wait the request
\* handler of its connection and the handlers of every other flow can take
\* their next step whenever their own stream has data.
C24_HandlersDoNotWait ==
    exit = "running" =>
        \A f \in Flows :
            /\ RequestHasWork(f) => RequestCanStep(f)
            /\ respH[f].pc = "try" =>
                  \A g \in Flows \ {f} :
                      /\ RequestHasWork(g) => RequestCanStep(g)
                      /\ ResponseHasWork(g) => ResponseCanStep(g)

\* C24 witness: a response handler has slept in its retry loop while the
\* request handler of the same connection is about to store its request
C24_Witness ==
    \E f \in Flows :
        /\ exit = "running"
        /\ respH[f].pc = "try"
        /\ respH[f].i >= 1
        /\ reqH[f].pc = "append_write"

\* the stream after position p is a sequence of complete units
RECURSIVE WellFormedFrom(_)
WellFormedFrom(p) ==
    \/ p = Len(Stream)
    \/ RefUnit(p).ok /\ WellFormedFrom(RefUnit(p).end)

\* C25: under fair scheduling, once main has flushed the reassembly engine at
\* the end of a well-formed capture, the handler reaches EndOfStream and
\* finishes, wg.Wait() returns and the summary is reported.
C25_SummaryEventually ==
    (scanMain = "waiting" /\ WellFormedFrom(0)) ~> (scanMain = "reported")

\* the requests of flow f whose append is complete
Appended(f) ==
    reqStream[f].sent - Len(reqStream[f].q)
        - (IF reqH[f].pc = "append_write" THEN 1 ELSE 0)

\* C26: in every state and for every flow, the number of requests appended
\* equals the number of records emitted plus the length of the pending queue:
\* no appended request is lost and none is paired twice, under every
\* interleaving of the two handlers.
C26_RequestsConserved ==
    \A f \in Flows :
        Appended(f) = Len(records[f]) + Len(pendingRequests[f].list)

\* C27: completion discards nothing: once the producer has signalled
\* completion, the bytes returned so far followed by the bytes still buffered
\* are all the accepted bytes in order, a read finds the end of the stream only
\* when no accepted byte is left, and a call that returned EndOfStream did so
\* with every accepted byte returned.
C27_CompletionKeepsData ==
    closed =>
        /\ returned \o Pending = accepted
        /\ ReadNow.st = "eof" => Pending = <<>>
        /\ ret.err = EndOfStream => returned = accepted

\* C27 witness: completion has been signalled while a batch is still in the
\* channel, and a call that has read a byte is in progress
C27_Witness ==
    /\ closed
    /\ Len(reassembled) > 0
    /\ call.op # "none"
    /\ Len(call.sb) >= 1
    /\ exit = "running"
====
